---- MODULE Spec2Model ----
(***************************************************************************)
(* State-machine model of the useWebSocket hook                            *)
(* (src/src/hooks/useWebSocket.ts): the refs and React state of one hook   *)
(* instance, the WebSocket objects it created, its pending timers, and the *)
(* handlers the browser's event loop runs one at a time.                   *)
(*                                                                         *)
(* Every handler is a function from the hook's state (the record H) to the *)
(* hook's state, composed in the order the source calls them; an action    *)
(* runs one whole handler and commits the result.                          *)
(***************************************************************************)
EXTENDS Integers, Sequences, FiniteSets, TLC

\* ------------------------------------------------------------------ bounds
MaxSockets == 2        \* WebSockets one behaviour of Spec may create
MaxRetrySockets == 7   \* WebSockets one behaviour of RetrySpec may create
MaxLifecycleSockets == 3 \* WebSockets one behaviour of LifecycleSpec may create
MaxEffects == 1        \* re-runs of the mount effect (prop change, strict mode)
MaxChatMessages == 2   \* entries of ChatWindow's message list in ChatSpec
MaxFrames == 2         \* inbound frames one behaviour of MessageSpec receives

\* --------------------------------------------------------- program constants
maxReconnectAttempts == 5
reconnectDelay == 3000
NormalClosure == 1000  \* the code cleanup() closes with, "manual close"
\* 1006: what the browser reports for a connection that failed (an error event
\* precedes the close event); 1001: a close frame sent by a server going away.
FailureCodes == {1006}

NoError == "null"
MissingError == "Missing roomId or token"
ExhaustedError == "Max reconnection attempts reached. Please refresh the page."
CreateError == "Failed to create WebSocket connection"

\* ------------------------------------------------------------------- inputs
\* The (roomId, token) pairs a render may pass: two usable ones, one with an
\* empty roomId, one with an empty token, one whose URL has a fragment.
Targets ==
  {<<"7", "abc">>, <<"8", "abc">>, <<"", "abc">>, <<"7", "">>,
   <<"7", "a#b">>}
Contents == {"", "x", "hello"}
CloseCodes == {NormalClosure, 1001} \cup FailureCodes

\* new WebSocket(url) throws SyntaxError when the URL has a fragment; the
\* only parts of wsUrl the caller controls are roomId and token.
UrlRejected(rid, tok) == rid \in {"a#b"} \/ tok \in {"a#b"}

\* ------------------------------------------------------------------- frames
PingRaw == "{\"type\":\"ping\"}"
PongRaw == "{\"type\":\"pong\"}"
Msg1Raw == "{\"type\":\"message\",\"room_id\":7,\"sender_id\":1,\"username\":\"ann\",\"content\":\"m1\",\"ts\":1}"
Msg2Raw == "{\"type\":\"message\",\"room_id\":7,\"sender_id\":2,\"username\":\"bob\",\"content\":\"m2\",\"ts\":2}"
BareMsgRaw == "{\"type\":\"message\"}"
OtherRaw == "{\"type\":\"typing\"}"
NoTypeRaw == "{\"content\":\"m3\"}"
NullRaw == "null"
GarbageRaw == "not json"
InboundFrames ==
  {PingRaw, PongRaw, Msg1Raw, Msg2Raw, BareMsgRaw, OtherRaw, NoTypeRaw,
   NullRaw, GarbageRaw}

\* JSON.parse on the inbound frames: "throw" for a SyntaxError, "null" for
\* the JSON value null, otherwise the parsed object.
JSONParse(raw) ==
  CASE raw = PingRaw -> [kind |-> "object", obj |-> [type |-> "ping"]]
    [] raw = PongRaw -> [kind |-> "object", obj |-> [type |-> "pong"]]
    [] raw = Msg1Raw -> [kind |-> "object",
                         obj |-> [type |-> "message", room_id |-> 7,
                                  sender_id |-> 1, username |-> "ann",
                                  content |-> "m1", ts |-> 1]]
    [] raw = Msg2Raw -> [kind |-> "object",
                         obj |-> [type |-> "message", room_id |-> 7,
                                  sender_id |-> 2, username |-> "bob",
                                  content |-> "m2", ts |-> 2]]
    [] raw = BareMsgRaw -> [kind |-> "object", obj |-> [type |-> "message"]]
    [] raw = OtherRaw -> [kind |-> "object", obj |-> [type |-> "typing"]]
    [] raw = NoTypeRaw -> [kind |-> "object", obj |-> [content |-> "m3"]]
    [] raw = NullRaw -> [kind |-> "null", obj |-> [type |-> "undefined"]]
    [] OTHER -> [kind |-> "throw", obj |-> [type |-> "undefined"]]

\* message.type: a property read; undefined when the field is absent.
TypeOf(obj) == IF "type" \in DOMAIN obj THEN obj.type ELSE "undefined"

\* JSON.stringify({ content }) and JSON.stringify({ type: "pong" }).
StringifyContent(c) ==
  CASE c = "" -> "{\"content\":\"\"}"
    [] c = "x" -> "{\"content\":\"x\"}"
    [] c = "hello" -> "{\"content\":\"hello\"}"
    [] OTHER -> "{\"content\":\"?\"}"
StringifyPong == "{\"type\":\"pong\"}"

\* What the server reads back from an outbound frame.
DecodeOutbound(data) ==
  CASE data = "{\"content\":\"\"}" -> [content |-> ""]
    [] data = "{\"content\":\"x\"}" -> [content |-> "x"]
    [] data = "{\"content\":\"hello\"}" -> [content |-> "hello"]
    [] data = "{\"type\":\"pong\"}" -> [type |-> "pong"]
    [] OTHER -> [unknown |-> data]

\* -------------------------------------------------------------------- state
VARIABLES
  roomId, token,        \* the props of the latest render
  mounted,              \* the component is mounted
  mountTimer,           \* the effect's 100 ms timer is pending
  effects,              \* number of effect re-runs so far
  isConnected, error,   \* React state
  wsRef,                \* wsRef.current: 0 (null) or a socket id
  reconnectTimeoutRef,  \* reconnectTimeoutRef.current: 0 (null) or a timer id
  reconnectAttemptsRef, \* reconnectAttemptsRef.current
  isConnectingRef,      \* isConnectingRef.current
  sockets,              \* every WebSocket created, indexed by id
  timers,               \* pending reconnect timers
  onConnectCalls,       \* number of onConnect invocations
  onDisconnectCalls,    \* number of onDisconnect invocations
  exhaustedCalls,       \* number of setError calls with the exhaustion error
  manual,               \* disconnect() was called and connect() not since
  received,             \* MessageSpec: the frames delivered by the transport
  forwarded,            \* MessageSpec: the onMessage invocations, in order
  chat,                 \* ChatSpec: ChatWindow's autoScroll, message list and
                        \* history requests in flight
  last                  \* the handler that ran last, its input and its result

vars ==
  <<roomId, token, mounted, mountTimer, effects, manual, received,
    forwarded, chat, last, isConnected,
    error, wsRef, reconnectTimeoutRef, reconnectAttemptsRef, isConnectingRef,
    sockets, timers, onConnectCalls, onDisconnectCalls, exhaustedCalls>>

\* The hook's state as one value, so that handlers compose as functions.
\* sent and delivered collect what the running handler writes to sockets and
\* hands to onMessage; the hook itself keeps neither.
H ==
  [isConnected |-> isConnected, error |-> error, wsRef |-> wsRef,
   reconnectTimeoutRef |-> reconnectTimeoutRef,
   reconnectAttemptsRef |-> reconnectAttemptsRef,
   isConnectingRef |-> isConnectingRef, sockets |-> sockets,
   timers |-> timers, onConnectCalls |-> onConnectCalls,
   onDisconnectCalls |-> onDisconnectCalls, delivered |-> <<>>,
   sent |-> <<>>, exhaustedCalls |-> exhaustedCalls]

Commit(h) ==
  /\ isConnected' = h.isConnected
  /\ error' = h.error
  /\ wsRef' = h.wsRef
  /\ reconnectTimeoutRef' = h.reconnectTimeoutRef
  /\ reconnectAttemptsRef' = h.reconnectAttemptsRef
  /\ isConnectingRef' = h.isConnectingRef
  /\ sockets' = h.sockets
  /\ timers' = h.timers
  /\ onConnectCalls' = h.onConnectCalls
  /\ onDisconnectCalls' = h.onDisconnectCalls
  /\ exhaustedCalls' = h.exhaustedCalls

\* ------------------------------------------------------- the WebSocket object
\* ws.readyState; wsRef.current?.readyState is undefined for a null ref.
ReadyStateOf(h, s) == IF s = 0 THEN "undefined" ELSE h.sockets[s].readyState

\* new WebSocket(wsUrl): the socket starts CONNECTING and remembers the query
\* parameters of its URL; opened records whether it ever reached OPEN and
\* closeCalled whether close() was ever called on it.
NewSocket(rid, tok) ==
  [readyState |-> "CONNECTING", roomId |-> rid, token |-> tok,
   opened |-> FALSE, closeCalled |-> FALSE]

\* ws.close(code, reason): starts the closing handshake of a socket that is
\* CONNECTING or OPEN, and does nothing to one that is CLOSING or CLOSED.
WsClose(h, s) ==
  IF h.sockets[s].readyState \in {"CONNECTING", "OPEN"}
  THEN [h EXCEPT !.sockets[s].readyState = "CLOSING",
                 !.sockets[s].closeCalled = TRUE]
  ELSE [h EXCEPT !.sockets[s].closeCalled = TRUE]

\* ws.send(data) throws InvalidStateError on a CONNECTING socket, transmits on
\* an OPEN one and silently discards the data on a CLOSING or CLOSED one.
WsSendThrows(h, s) == h.sockets[s].readyState = "CONNECTING"
WsSend(h, s, data) ==
  IF h.sockets[s].readyState = "OPEN"
  THEN [h EXCEPT !.sent = Append(@, [sock |-> s, data |-> data])]
  ELSE h

\* ------------------------------------------------------------- React state
\* A state setter of an unmounted component does nothing.
SetIsConnected(h, v) == IF mounted THEN [h EXCEPT !.isConnected = v] ELSE h
SetError(h, e) ==
  LET h1 == IF mounted THEN [h EXCEPT !.error = e] ELSE h
  IN IF e = ExhaustedError
     THEN [h1 EXCEPT !.exhaustedCalls = @ + 1]
     ELSE h1

\* ------------------------------------------------------------ the handlers
\* cleanup that drops the owned handle without closing it (line 47 missing).
cleanup_NoClose(h) ==
  LET h1 == IF h.reconnectTimeoutRef # 0
            THEN [h EXCEPT
                    !.timers = {t \in @ : t.id # h.reconnectTimeoutRef},
                    !.reconnectTimeoutRef = 0]
            ELSE h
      h2 == [h1 EXCEPT !.wsRef = 0]
  IN [SetIsConnected(h2, FALSE) EXCEPT !.isConnectingRef = FALSE]

cleanup(h) ==
  LET h1 == IF h.reconnectTimeoutRef # 0
            THEN [h EXCEPT
                    !.timers = {t \in @ : t.id # h.reconnectTimeoutRef},
                    !.reconnectTimeoutRef = 0]
            ELSE h
      h2 == IF h1.wsRef # 0
            THEN [WsClose(h1, h1.wsRef) EXCEPT !.wsRef = 0]
            ELSE h1
  IN [SetIsConnected(h2, FALSE) EXCEPT !.isConnectingRef = FALSE]

\* connect without the check of lines 74-77 (a socket still CONNECTING).
connect_NoConnectingGuard(h, rid, tok) ==
  IF h.isConnectingRef THEN h
  ELSE IF ReadyStateOf(h, h.wsRef) = "OPEN" THEN h
  ELSE IF rid = "" \/ tok = "" THEN SetError(h, MissingError)
  ELSE LET h1 == cleanup([h EXCEPT !.isConnectingRef = TRUE])
       IN IF UrlRejected(rid, tok)
          THEN [SetError(h1, CreateError) EXCEPT !.isConnectingRef = FALSE]
          ELSE [h1 EXCEPT !.sockets = Append(@, NewSocket(rid, tok)),
                          !.wsRef = Len(h1.sockets) + 1]

connect(h, rid, tok) ==
  IF h.isConnectingRef THEN h
  ELSE IF ReadyStateOf(h, h.wsRef) = "OPEN" THEN h
  ELSE IF ReadyStateOf(h, h.wsRef) = "CONNECTING" THEN h
  ELSE IF rid = "" \/ tok = "" THEN SetError(h, MissingError)
  ELSE LET h1 == cleanup([h EXCEPT !.isConnectingRef = TRUE])
       IN IF UrlRejected(rid, tok)
          THEN [SetError(h1, CreateError) EXCEPT !.isConnectingRef = FALSE]
          ELSE [h1 EXCEPT !.sockets = Append(@, NewSocket(rid, tok)),
                          !.wsRef = Len(h1.sockets) + 1]

\* onopen without the reset of line 100.
onopen_NoReset(h, s) ==
  [SetError(SetIsConnected(h, TRUE), NoError) EXCEPT
     !.isConnectingRef = FALSE,
     !.onConnectCalls = @ + 1]

onopen(h, s) ==
  [SetError(SetIsConnected(h, TRUE), NoError) EXCEPT
     !.reconnectAttemptsRef = 0,
     !.isConnectingRef = FALSE,
     !.onConnectCalls = @ + 1]

\* onmessage that returns on a ping without answering it.
onmessage_NoPong(h, s, raw) ==
  LET p == JSONParse(raw)
  IN IF p.kind = "throw" THEN h
     ELSE IF p.kind = "null" THEN h
     ELSE IF TypeOf(p.obj) = "ping" THEN h
     ELSE IF TypeOf(p.obj) = "pong" THEN h
     ELSE IF TypeOf(p.obj) = "message"
          THEN [h EXCEPT !.delivered = Append(@, p.obj)]
     ELSE h

\* onmessage without the test of line 122: whatever is neither ping nor pong
\* is handed to onMessage.
onmessage_NoTypeTest(h, s, raw) ==
  LET p == JSONParse(raw)
  IN IF p.kind = "throw" THEN h
     ELSE IF p.kind = "null" THEN h
     ELSE IF TypeOf(p.obj) = "ping"
          THEN IF ReadyStateOf(h, s) = "OPEN"
               THEN WsSend(h, s, StringifyPong)
               ELSE h
     ELSE IF TypeOf(p.obj) = "pong" THEN h
     ELSE [h EXCEPT !.delivered = Append(@, p.obj)]

\* onmessage that calls onMessage twice for a message frame.
onmessage_Twice(h, s, raw) ==
  LET p == JSONParse(raw)
  IN IF p.kind = "throw" THEN h
     ELSE IF p.kind = "null" THEN h
     ELSE IF TypeOf(p.obj) = "ping"
          THEN IF ReadyStateOf(h, s) = "OPEN"
               THEN WsSend(h, s, StringifyPong)
               ELSE h
     ELSE IF TypeOf(p.obj) = "pong" THEN h
     ELSE IF TypeOf(p.obj) = "message"
          THEN [h EXCEPT !.delivered = Append(Append(@, p.obj), p.obj)]
     ELSE h

onmessage(h, s, raw) ==
  LET p == JSONParse(raw)
  IN IF p.kind = "throw" THEN h      \* JSON.parse threw: caught and logged
     ELSE IF p.kind = "null" THEN h  \* null.type threw: caught and logged
     ELSE IF TypeOf(p.obj) = "ping"
          THEN IF ReadyStateOf(h, s) = "OPEN"
               THEN WsSend(h, s, StringifyPong)
               ELSE h
     ELSE IF TypeOf(p.obj) = "pong" THEN h
     ELSE IF TypeOf(p.obj) = "message"
          THEN [h EXCEPT !.delivered = Append(@, p.obj)]
     ELSE h

\* onclose that schedules the retry without counting it (line 147 missing).
onclose_NoIncrement(h, s, code) ==
  LET h1 == [SetIsConnected(h, FALSE) EXCEPT
               !.isConnectingRef = FALSE,
               !.onDisconnectCalls = @ + 1]
  IN IF code # NormalClosure /\ h1.reconnectAttemptsRef < maxReconnectAttempts
     THEN [h1 EXCEPT
             !.timers = @ \cup {[id |-> s, delay |-> reconnectDelay]},
             !.reconnectTimeoutRef = s]
     ELSE IF h1.reconnectAttemptsRef >= maxReconnectAttempts
          THEN SetError(h1, ExhaustedError)
          ELSE h1

\* onclose that retries whatever the attempt counter (line 145 missing).
onclose_Unbounded(h, s, code) ==
  LET h1 == [SetIsConnected(h, FALSE) EXCEPT
               !.isConnectingRef = FALSE,
               !.onDisconnectCalls = @ + 1]
  IN IF code # NormalClosure
     THEN [h1 EXCEPT
             !.reconnectAttemptsRef = @ + 1,
             !.timers = @ \cup {[id |-> s, delay |-> reconnectDelay]},
             !.reconnectTimeoutRef = s]
     ELSE IF h1.reconnectAttemptsRef >= maxReconnectAttempts
          THEN SetError(h1, ExhaustedError)
          ELSE h1

\* onclose that gives up when the counter reaches maxReconnectAttempts: the
\* close that counts the fifth failure schedules nothing and sets the error.
onclose_ExhaustOnReach(h, s, code) ==
  LET h1 == [SetIsConnected(h, FALSE) EXCEPT
               !.isConnectingRef = FALSE,
               !.onDisconnectCalls = @ + 1]
  IN IF code # NormalClosure
        /\ h1.reconnectAttemptsRef + 1 < maxReconnectAttempts
     THEN [h1 EXCEPT
             !.reconnectAttemptsRef = @ + 1,
             !.timers = @ \cup {[id |-> s, delay |-> reconnectDelay]},
             !.reconnectTimeoutRef = s]
     ELSE IF code # NormalClosure
          THEN SetError([h1 EXCEPT
                           !.reconnectAttemptsRef = maxReconnectAttempts],
                        ExhaustedError)
          ELSE h1

onclose(h, s, code) ==
  LET h1 == [SetIsConnected(h, FALSE) EXCEPT
               !.isConnectingRef = FALSE,
               !.onDisconnectCalls = @ + 1]
  IN IF code # NormalClosure /\ h1.reconnectAttemptsRef < maxReconnectAttempts
     THEN [h1 EXCEPT
             !.reconnectAttemptsRef = @ + 1,
             !.timers = @ \cup {[id |-> s, delay |-> reconnectDelay]},
             !.reconnectTimeoutRef = s]
     ELSE IF h1.reconnectAttemptsRef >= maxReconnectAttempts
          THEN SetError(h1, ExhaustedError)
          ELSE h1

onerror(h, s) == [h EXCEPT !.isConnectingRef = FALSE]

disconnect(h) ==
  [cleanup(h) EXCEPT !.reconnectAttemptsRef = maxReconnectAttempts]

\* The handlers when the callback the caller passed calls disconnect().
\* onConnect is the last statement of onopen (line 102) and onMessage the last
\* of the message branch (line 123); onDisconnect runs in the middle of
\* onclose (line 139), before the reconnection branch (lines 143-161).
onopenCallingDisconnect(h, s) == disconnect(onopen(h, s))

onmessageCallingDisconnect(h, s, raw) ==
  LET h1 == onmessage(h, s, raw)
  IN IF h1.delivered # h.delivered THEN disconnect(h1) ELSE h1

oncloseCallingDisconnect(h, s, code) ==
  LET h1 == disconnect([SetIsConnected(h, FALSE) EXCEPT
                          !.isConnectingRef = FALSE,
                          !.onDisconnectCalls = @ + 1])
  IN IF code # NormalClosure /\ h1.reconnectAttemptsRef < maxReconnectAttempts
     THEN [h1 EXCEPT
             !.reconnectAttemptsRef = @ + 1,
             !.timers = @ \cup {[id |-> s, delay |-> reconnectDelay]},
             !.reconnectTimeoutRef = s]
     ELSE IF h1.reconnectAttemptsRef >= maxReconnectAttempts
          THEN SetError(h1, ExhaustedError)
          ELSE h1

\* sendMessage without the readyState check of lines 190-196 and without
\* the try/catch around the send.
sendMessage_NoStateCheck(h, content) ==
  IF h.wsRef = 0 THEN [h |-> h, ret |-> "false"]
  ELSE IF WsSendThrows(h, h.wsRef) THEN [h |-> h, ret |-> "throw"]
  ELSE [h |-> WsSend(h, h.wsRef, StringifyContent(content)), ret |-> "true"]

\* sendMessage that writes the content itself instead of {content}.
sendMessage_RawContent(h, content) ==
  IF h.wsRef = 0 THEN [h |-> h, ret |-> "false"]
  ELSE IF ReadyStateOf(h, h.wsRef) # "OPEN" THEN [h |-> h, ret |-> "false"]
  ELSE IF WsSendThrows(h, h.wsRef) THEN [h |-> h, ret |-> "false"]
  ELSE [h |-> WsSend(h, h.wsRef, content), ret |-> "true"]

\* sendMessage gives the new state and how the call ends: "true" or "false"
\* for the boolean returned, "throw" for an exception that escapes it. The
\* send is inside try/catch, so that a throwing send ends in "false".
sendMessage(h, content) ==
  IF h.wsRef = 0 THEN [h |-> h, ret |-> "false"]
  ELSE IF ReadyStateOf(h, h.wsRef) # "OPEN" THEN [h |-> h, ret |-> "false"]
  ELSE IF WsSendThrows(h, h.wsRef) THEN [h |-> h, ret |-> "false"]
  ELSE [h |-> WsSend(h, h.wsRef, StringifyContent(content)), ret |-> "true"]

\* The callback given to window.setTimeout by the close handler of socket s;
\* connect is the one of the render that created s.
reconnectTimerCallback(h, s) ==
  IF ~h.isConnectingRef
  THEN connect(h, h.sockets[s].roomId, h.sockets[s].token)
  ELSE h

\* The mount timer's callback with its test failing: it never calls connect().
mountTimerCallback_Skip(h, rid, tok) == h

\* The callback of the effect's 100 ms timer.
mountTimerCallback(h, rid, tok) ==
  IF ~h.isConnectingRef /\ h.wsRef = 0 THEN connect(h, rid, tok) ELSE h

\* -------------------------------------------------------------- the actions
\* The record of one step: the handler, the socket, close code and argument
\* it ran with, what it returned, the attempt counter it started from, the
\* frames it wrote, the messages it handed to onMessage, the number of
\* sockets it created, and whether it is a connect() call that directly
\* follows another connect() call.
Step(op, s, code, arg, ret, h) ==
  [op |-> op, sock |-> s, code |-> code, arg |-> arg, ret |-> ret,
   att |-> reconnectAttemptsRef, wrote |-> h.sent, gave |-> h.delivered,
   made |-> Len(h.sockets) - Len(sockets),
   again |-> (op = "connect" /\ last.op = "connect")]

SocketIds == 1..Len(sockets)

Init ==
  /\ \E t \in Targets : roomId = t[1] /\ token = t[2]
  /\ mounted = TRUE
  /\ mountTimer = TRUE
  /\ effects = 0
  /\ isConnected = FALSE
  /\ error = NoError
  /\ wsRef = 0
  /\ reconnectTimeoutRef = 0
  /\ reconnectAttemptsRef = 0
  /\ isConnectingRef = FALSE
  /\ sockets = <<>>
  /\ timers = {}
  /\ onConnectCalls = 0
  /\ onDisconnectCalls = 0
  /\ exhaustedCalls = 0
  /\ manual = FALSE
  /\ received = <<>>
  /\ forwarded = <<>>
  /\ chat = [autoScroll |-> TRUE, messages |-> <<>>,
             history |-> IF token # "" /\ roomId # "" THEN {roomId} ELSE {}]
  /\ last = [op |-> "mount", sock |-> 0, code |-> 0, arg |-> "",
             ret |-> "", att |-> 0, wrote |-> <<>>, gave |-> <<>>,
             made |-> 0, again |-> FALSE]

\* The effect's timer fires (lines 214-218); cap bounds the sockets created.
MountTimerFire(cap) ==
  /\ mountTimer
  /\ LET h == mountTimerCallback(H, roomId, token)
     IN /\ Len(h.sockets) <= cap
        /\ Commit(h)
        /\ last' = Step("mountTimer", h.wsRef, 0, "", "", h)
  /\ mountTimer' = FALSE
  /\ UNCHANGED <<roomId, token, mounted, effects, manual>>
  /\ UNCHANGED <<received, forwarded, chat>>

\* The caller calls the connect the hook returned from its latest render.
Connect(cap) ==
  /\ mounted
  /\ LET h == connect(H, roomId, token)
     IN /\ Len(h.sockets) <= cap
        /\ Commit(h)
        /\ last' = Step("connect", h.wsRef, 0, "", "", h)
  /\ manual' = FALSE
  /\ UNCHANGED <<roomId, token, mounted, mountTimer, effects>>
  /\ UNCHANGED <<received, forwarded, chat>>

Disconnect ==
  /\ mounted
  /\ LET h == disconnect(H)
     IN /\ Commit(h)
        /\ last' = Step("disconnect", wsRef, 0, "", "", h)
  /\ manual' = TRUE
  /\ UNCHANGED <<roomId, token, mounted, mountTimer, effects>>
  /\ UNCHANGED <<received, forwarded, chat>>

SendMessage(content) ==
  /\ mounted
  /\ LET r == sendMessage(H, content)
     IN /\ Commit(r.h)
        /\ last' = Step("sendMessage", wsRef, 0, content, r.ret, r.h)
  /\ UNCHANGED <<roomId, token, mounted, mountTimer, effects, manual>>
  /\ UNCHANGED <<received, forwarded, chat>>

\* The handshake of socket s succeeds: the browser sets readyState to OPEN and
\* fires the open event.
SocketOpen(s) ==
  /\ sockets[s].readyState = "CONNECTING"
  /\ LET h0 == [H EXCEPT !.sockets[s].readyState = "OPEN",
                         !.sockets[s].opened = TRUE]
         h == onopen(h0, s)
     IN /\ Commit(h)
        /\ last' = Step("onopen", s, 0, "", "", h)
  /\ UNCHANGED <<roomId, token, mounted, mountTimer, effects, manual>>
  /\ UNCHANGED <<received, forwarded, chat>>

\* A frame arrives on socket s. A socket whose close() was called is CLOSING
\* until the closing handshake ends, and runtimes differ on whether a frame
\* that arrives meanwhile is still dispatched: both are allowed here.
SocketMessage(s, raw) ==
  /\ sockets[s].opened
  /\ sockets[s].readyState \in {"OPEN", "CLOSING"}
  /\ LET h == onmessage(H, s, raw)
     IN /\ Commit(h)
        /\ last' = Step("onmessage", s, 0, raw, "", h)
  /\ UNCHANGED <<roomId, token, mounted, mountTimer, effects, manual>>
  /\ UNCHANGED <<received, forwarded, chat>>

\* The connection of socket s ends: the browser sets readyState to CLOSED,
\* fires the error event first when the connection failed, then the close
\* event. A socket that never opened can only fail.
SocketClose(s, code) ==
  /\ sockets[s].readyState # "CLOSED"
  /\ ~sockets[s].opened => code \in FailureCodes
  /\ LET h0 == [H EXCEPT !.sockets[s].readyState = "CLOSED"]
         h1 == IF code \in FailureCodes THEN onerror(h0, s) ELSE h0
         h == onclose(h1, s, code)
     IN /\ Commit(h)
        /\ last' = Step("onclose", s, code, "", "", h)
  /\ UNCHANGED <<roomId, token, mounted, mountTimer, effects, manual>>
  /\ UNCHANGED <<received, forwarded, chat>>

\* The single-shot reconnect timer scheduled by the close handler of socket s
\* fires (lines 152-156).
ReconnectTimerFire(s, cap) ==
  /\ \E t \in timers : t.id = s
  /\ LET h0 == [H EXCEPT !.timers = {t \in @ : t.id # s}]
         h == reconnectTimerCallback(h0, s)
     IN /\ Len(h.sockets) <= cap
        /\ Commit(h)
        /\ last' = Step("reconnectTimer", s, 0, "", "", h)
  /\ UNCHANGED <<roomId, token, mounted, mountTimer, effects, manual>>
  /\ UNCHANGED <<received, forwarded, chat>>

\* A render changes roomId, token or the identity of a callback, or strict
\* mode replays the effect: React runs the effect's cleanup (lines 220-223)
\* and then the effect again (lines 210-218).
EffectRerun(rid, tok) ==
  /\ mounted
  /\ effects < MaxEffects
  /\ LET h == cleanup(H)
     IN /\ Commit(h)
        /\ last' = Step("effect", wsRef, 0, "", "", h)
  /\ mountTimer' = TRUE
  /\ roomId' = rid
  /\ token' = tok
  /\ effects' = effects + 1
  /\ manual' = FALSE
  /\ UNCHANGED mounted
  /\ UNCHANGED <<received, forwarded, chat>>

\* The component unmounts: the effect's cleanup runs for the last time.
Unmount ==
  /\ mounted
  /\ LET h == cleanup(H)
     IN /\ Commit(h)
        /\ last' = Step("unmount", wsRef, 0, "", "", h)
  /\ mountTimer' = FALSE
  /\ mounted' = FALSE
  /\ UNCHANGED <<roomId, token, effects, manual>>
  /\ UNCHANGED <<received, forwarded, chat>>

Next ==
  \/ MountTimerFire(MaxSockets)
  \/ Connect(MaxSockets)
  \/ Disconnect
  \/ \E c \in Contents : SendMessage(c)
  \/ \E s \in SocketIds : SocketOpen(s)
  \/ \E s \in SocketIds, raw \in InboundFrames : SocketMessage(s, raw)
  \/ \E s \in SocketIds, code \in CloseCodes : SocketClose(s, code)
  \/ \E s \in SocketIds : ReconnectTimerFire(s, MaxSockets)
  \/ \E t \in Targets : EffectRerun(t[1], t[2])
  \/ Unmount

Spec == Init /\ [][Next]_vars

\* ------------------------------------------------- the all-failures scenario
\* A hook mounted with a usable target whose every connection attempt fails
\* in the handshake: no socket opens, and the caller calls neither connect()
\* nor disconnect(). The event loop runs every pending timer and the browser
\* ends every connection attempt, hence the fairness.
UsableTarget(rid, tok) == rid # "" /\ tok # "" /\ ~UrlRejected(rid, tok)

RetryInit == Init /\ UsableTarget(roomId, token)

RetryNext ==
  \/ MountTimerFire(MaxRetrySockets)
  \/ \E s \in SocketIds, code \in FailureCodes : SocketClose(s, code)
  \/ \E s \in SocketIds : ReconnectTimerFire(s, MaxRetrySockets)
  \/ \E c \in Contents : SendMessage(c)

RetrySpec ==
  /\ RetryInit
  /\ [][RetryNext]_vars
  /\ WF_vars(MountTimerFire(MaxRetrySockets))
  /\ WF_vars(\E s \in SocketIds, code \in FailureCodes : SocketClose(s, code))
  /\ WF_vars(\E s \in SocketIds : ReconnectTimerFire(s, MaxRetrySockets))

\* ------------------------------------------------- the connection lifecycle
\* The hook without its message traffic: every way a socket or a timer is
\* created, fires, closes or is cancelled, with room for one more socket than
\* Spec has.
LifecycleNext ==
  \/ MountTimerFire(MaxLifecycleSockets)
  \/ Connect(MaxLifecycleSockets)
  \/ Disconnect
  \/ \E s \in SocketIds : SocketOpen(s)
  \/ \E s \in SocketIds, code \in CloseCodes : SocketClose(s, code)
  \/ \E s \in SocketIds : ReconnectTimerFire(s, MaxLifecycleSockets)
  \/ \E t \in Targets : EffectRerun(t[1], t[2])
  \/ Unmount

LifecycleSpec == Init /\ [][LifecycleNext]_vars

\* ------------------------------------------- callbacks that call disconnect()
\* The events of SocketOpen, SocketMessage and SocketClose for a caller whose
\* onConnect, onMessage or onDisconnect calls disconnect().
SocketOpenCallingDisconnect(s) ==
  /\ sockets[s].readyState = "CONNECTING"
  /\ LET h0 == [H EXCEPT !.sockets[s].readyState = "OPEN",
                         !.sockets[s].opened = TRUE]
         h == onopenCallingDisconnect(h0, s)
     IN /\ Commit(h)
        /\ last' = Step("onopenDisconnect", s, 0, "", "", h)
  /\ manual' = TRUE
  /\ UNCHANGED <<roomId, token, mounted, mountTimer, effects>>
  /\ UNCHANGED <<received, forwarded, chat>>

SocketMessageCallingDisconnect(s, raw) ==
  /\ sockets[s].opened
  /\ sockets[s].readyState \in {"OPEN", "CLOSING"}
  /\ LET h == onmessageCallingDisconnect(H, s, raw)
     IN /\ h.delivered # <<>>
        /\ Commit(h)
        /\ last' = Step("onmessageDisconnect", s, 0, raw, "", h)
  /\ manual' = TRUE
  /\ UNCHANGED <<roomId, token, mounted, mountTimer, effects>>
  /\ UNCHANGED <<received, forwarded, chat>>

SocketCloseCallingDisconnect(s, code) ==
  /\ sockets[s].readyState # "CLOSED"
  /\ ~sockets[s].opened => code \in FailureCodes
  /\ LET h0 == [H EXCEPT !.sockets[s].readyState = "CLOSED"]
         h1 == IF code \in FailureCodes THEN onerror(h0, s) ELSE h0
         h == oncloseCallingDisconnect(h1, s, code)
     IN /\ Commit(h)
        /\ last' = Step("oncloseDisconnect", s, code, "", "", h)
  /\ manual' = TRUE
  /\ UNCHANGED <<roomId, token, mounted, mountTimer, effects>>
  /\ UNCHANGED <<received, forwarded, chat>>

CallbackNext ==
  \/ LifecycleNext
  \/ \E s \in SocketIds : SocketOpenCallingDisconnect(s)
  \/ \E s \in SocketIds : SocketMessageCallingDisconnect(s, Msg1Raw)
  \/ \E s \in SocketIds, code \in CloseCodes :
       SocketCloseCallingDisconnect(s, code)

CallbackSpec == Init /\ [][CallbackNext]_vars

\* ------------------------------------------------------ the message stream
\* SocketMessage with the stream recorded: the frame as the transport
\* delivered it, and what the handler handed to onMessage, in call order.
RECURSIVE Tagged(_, _)
Tagged(s, msgs) ==
  IF msgs = <<>> THEN <<>>
  ELSE <<[sock |-> s, msg |-> Head(msgs)]>> \o Tagged(s, Tail(msgs))

SocketMessageLogged(s, raw) ==
  /\ Len(received) < MaxFrames
  /\ sockets[s].opened
  /\ sockets[s].readyState \in {"OPEN", "CLOSING"}
  /\ LET h == onmessage(H, s, raw)
     IN /\ Commit(h)
        /\ last' = Step("onmessage", s, 0, raw, "", h)
        /\ forwarded' = forwarded \o Tagged(s, h.delivered)
  /\ received' = Append(received, [sock |-> s, raw |-> raw])
  /\ UNCHANGED <<roomId, token, mounted, mountTimer, effects, manual, chat>>

MessageNext ==
  \/ MountTimerFire(MaxSockets)
  \/ Disconnect
  \/ \E s \in SocketIds : SocketOpen(s)
  \/ \E s \in SocketIds, raw \in InboundFrames : SocketMessageLogged(s, raw)
  \/ \E s \in SocketIds, code \in CloseCodes : SocketClose(s, code)
  \/ \E s \in SocketIds : ReconnectTimerFire(s, MaxSockets)

MessageSpec == Init /\ [][MessageNext]_vars

\* ------------------------------------------- a caller that never disconnects
\* The hook used by a caller that never calls disconnect(): sessions end only
\* by the transport, by the effect's cleanup or by an unmount.
UnattendedNext ==
  \/ MountTimerFire(MaxSockets)
  \/ Connect(MaxSockets)
  \/ \E c \in Contents : SendMessage(c)
  \/ \E s \in SocketIds : SocketOpen(s)
  \/ \E s \in SocketIds, code \in CloseCodes : SocketClose(s, code)
  \/ \E s \in SocketIds : ReconnectTimerFire(s, MaxSockets)
  \/ \E t \in Targets : EffectRerun(t[1], t[2])
  \/ Unmount

UnattendedSpec == Init /\ [][UnattendedNext]_vars

\* The hook on a target that can be connected to, with sessions that open and
\* sessions that fail, the caller's connect(), and room for all five retries.
ReopenNext ==
  \/ MountTimerFire(MaxRetrySockets)
  \/ Connect(MaxRetrySockets)
  \/ \E s \in SocketIds : SocketOpen(s)
  \/ \E s \in SocketIds, code \in CloseCodes : SocketClose(s, code)
  \/ \E s \in SocketIds : ReconnectTimerFire(s, MaxRetrySockets)

ReopenSpec == RetryInit /\ [][ReopenNext]_vars

\* React strict mode: the effect runs, is cleaned up and runs again, for the
\* same roomId and token, before the 100 ms timer of its first run has fired.
StrictModeRemount ==
  /\ mountTimer
  /\ sockets = <<>>
  /\ EffectRerun(roomId, token)

\* The hook mounted in strict mode on a target that can be connected to, with
\* a session that opens and that the server may end with a normal closure.
StrictNext ==
  \/ StrictModeRemount
  \/ MountTimerFire(MaxSockets)
  \/ \E s \in SocketIds : SocketOpen(s)
  \/ \E s \in SocketIds, raw \in InboundFrames : SocketMessage(s, raw)
  \/ \E s \in SocketIds : SocketClose(s, NormalClosure)
  \/ \E c \in Contents : SendMessage(c)

StrictSpec == RetryInit /\ [][StrictNext]_vars

\* ------------------------------------------------------------- ChatWindow
\* ChatWindow (src/src/components/ChatWindow.tsx) around the hook: Home
\* renders one ChatWindow, without key, with the active room and a token that
\* is not empty. chat.history is the set of getMessages requests in flight,
\* each named by the room it asked for.
ChatInit == Init /\ UsableTarget(roomId, token)

\* The room_id the server stores for the rooms of Targets.
RoomNumber(rid) == IF rid = "7" THEN 7 ELSE IF rid = "8" THEN 8 ELSE 0

\* What the server answers to getMessages(rid, 50, token), converted as in
\* lines 60-67: the one message stored in the room when the request was made.
ConvertedHistory(rid) ==
  <<[type |-> "message", room_id |-> RoomNumber(rid), sender_id |-> 1,
     username |-> "ann", content |-> "h", ts |-> 0]>>

\* React runs the hook's effect cleanup and the effect again (lines 210-224
\* of the hook) when a render changed one of roomId, token, connect.
ChatEffectRerun(rid) ==
  /\ effects < MaxEffects
  /\ LET h == cleanup(H)
     IN /\ Commit(h)
        /\ last' = Step("effect", wsRef, 0, rid, "", h)
  /\ mountTimer' = TRUE
  /\ roomId' = rid
  /\ effects' = effects + 1
  /\ manual' = FALSE
  /\ UNCHANGED <<token, mounted, received, forwarded>>

\* The user scrolls: setAutoScroll(isAtBottom) (line 121). A changed
\* autoScroll gives onMessage a new identity (useCallback, lines 82-91), hence
\* connect a new identity (hook line 174), hence the hook's effect re-runs
\* (hook line 224). An unchanged value renders nothing anew.
ChatScroll(isAtBottom) ==
  /\ mounted
  /\ isAtBottom # chat.autoScroll
  /\ chat' = [chat EXCEPT !.autoScroll = isAtBottom]
  /\ ChatEffectRerun(roomId)
  /\ last'.op = "effect"

\* Home selects another room: the roomId prop changes, the history effect
\* (lines 49-79) starts a request for it and the hook's effect re-runs.
ChatRoomChange(rid) ==
  /\ mounted
  /\ rid # roomId
  /\ UsableTarget(rid, token)
  /\ chat' = [chat EXCEPT !.history = @ \cup {rid}]
  /\ ChatEffectRerun(rid)

\* The request for the history of room rid resolves: setMessages(converted)
\* (line 68).
ChatHistoryResolve(rid) ==
  /\ mounted
  /\ rid \in chat.history
  /\ chat' = [chat EXCEPT !.history = @ \ {rid},
                          !.messages = ConvertedHistory(rid)]
  /\ last' = [op |-> "history", sock |-> 0, code |-> 0, arg |-> rid,
              ret |-> "", att |-> reconnectAttemptsRef, wrote |-> <<>>,
              gave |-> <<>>, made |-> 0, again |-> FALSE]
  /\ UNCHANGED <<roomId, token, mounted, mountTimer, effects, manual,
                 received, forwarded, isConnected, error, wsRef,
                 reconnectTimeoutRef, reconnectAttemptsRef, isConnectingRef,
                 sockets, timers, onConnectCalls, onDisconnectCalls,
                 exhaustedCalls>>

\* A frame arrives on socket s; onMessage appends what the handler forwards:
\* setMessages((prev) => [...prev, message]) (line 84).
ChatSocketMessage(s, raw) ==
  /\ Len(chat.messages) < MaxChatMessages
  /\ sockets[s].opened
  /\ sockets[s].readyState \in {"OPEN", "CLOSING"}
  /\ LET h == onmessage(H, s, raw)
     IN /\ Commit(h)
        /\ last' = Step("onmessage", s, 0, raw, "", h)
        /\ chat' = IF mounted
                   THEN [chat EXCEPT !.messages = @ \o h.delivered]
                   ELSE chat
  /\ UNCHANGED <<roomId, token, mounted, mountTimer, effects, manual,
                 received, forwarded>>

ChatNext ==
  \/ MountTimerFire(MaxSockets)
  \/ \E s \in SocketIds : SocketOpen(s)
  \/ \E s \in SocketIds, code \in CloseCodes : SocketClose(s, code)
  \/ \E s \in SocketIds : ReconnectTimerFire(s, MaxSockets)
  \/ \E s \in SocketIds, raw \in {Msg1Raw, Msg2Raw, PingRaw} :
       ChatSocketMessage(s, raw)
  \/ \E b \in BOOLEAN : ChatScroll(b)
  \/ \E t \in Targets : ChatRoomChange(t[1])
  \/ \E rid \in {"7", "8"} : ChatHistoryResolve(rid)

ChatSpec == ChatInit /\ [][ChatNext]_vars

\* ---------------------------------------------------------------- the claims
LiveSockets ==
  {s \in SocketIds : sockets[s].readyState \in {"CONNECTING", "OPEN"}}
OpenedSockets == {s \in SocketIds : sockets[s].opened}

C2_NoTimerAfterDisconnect == last.op = "disconnect" => timers = {}

\* C4: when the open handler has run, the attempt counter is 0.
C4_OpenResetsAttempt == last.op = "onopen" => reconnectAttemptsRef = 0

C4_Witness ==
  /\ last.op = "onopen"
  /\ last.att > 0
  /\ onDisconnectCalls > 0
  /\ reconnectAttemptsRef = 0

\* C5: the close handler of a socket, open before or not, run with a code
\* other than 1000 while attempt < 5, adds exactly 1 to attempt, leaves
\* isConnected false, calls onDisconnect exactly once and schedules exactly
\* one timer, of 3000 ms, which it records in reconnectTimeoutRef.
C5_AbnormalCloseSchedulesRetry ==
  [][(/\ last'.op = "onclose"
      /\ last'.code # 1000
      /\ reconnectAttemptsRef < 5) =>
       (/\ reconnectAttemptsRef' = reconnectAttemptsRef + 1
        /\ isConnected' = FALSE
        /\ onDisconnectCalls' = onDisconnectCalls + 1
        /\ timers' = timers \cup {[id |-> last'.sock, delay |-> 3000]}
        /\ Cardinality(timers') = Cardinality(timers) + 1
        /\ reconnectTimeoutRef' = last'.sock)]_vars

\* An open session closed with 1006 at attempt = 0: ReconnectWait, attempt 1.
C5_Witness ==
  /\ last.op = "onclose"
  /\ last.code = 1006
  /\ last.att = 0
  /\ sockets[last.sock].opened
  /\ wsRef = last.sock
  /\ reconnectAttemptsRef = 1
  /\ ~isConnected
  /\ timers = {[id |-> last.sock, delay |-> 3000]}

\* The Failed state: the policy is exhausted, the error is up, and nothing is
\* left that could start another attempt.
Failed ==
  /\ reconnectAttemptsRef >= maxReconnectAttempts
  /\ error = ExhaustedError
  /\ timers = {}
  /\ ~mountTimer
  /\ LiveSockets = {}

\* C3: when every connection attempt fails in the handshake, starting from
\* attempt = 0, the hook eventually stays in Failed for good, and over the
\* whole run setError is called with the exhaustion error exactly once.
C3_ExhaustedExactlyOnce ==
  /\ <>[](Failed /\ exhaustedCalls = 1)
  /\ [](exhaustedCalls <= 1)

C3_Witness ==
  /\ Failed
  /\ exhaustedCalls = 1
  /\ Len(sockets) = maxReconnectAttempts + 1
  /\ \A s \in SocketIds : ~sockets[s].opened /\ sockets[s].readyState = "CLOSED"

OwnedOpen == wsRef # 0 /\ sockets[wsRef].readyState = "OPEN"

\* C7: a sendMessage call made while there is no owned socket, or the owned
\* socket is not OPEN, returns false (it does not throw) and writes nothing.
C7_SendWhenNotOpen ==
  (last.op = "sendMessage" /\ ~OwnedOpen) =>
    (last.ret = "false" /\ last.wrote = <<>>)

C7_Witness ==
  /\ last.op = "sendMessage"
  /\ wsRef # 0
  /\ sockets[wsRef].readyState = "CONNECTING"
  /\ last.ret = "false"
  /\ last.wrote = <<>>

\* C8: a sendMessage call made while the owned socket is OPEN returns true and
\* writes exactly one frame, to that socket, which decodes to the object
\* {content} with no other field; a call that returns false writes nothing;
\* and no other handler writes content: whatever a step writes is the frame
\* of that step's own sendMessage call or the pong of that step's ping.
C8_SendWhenOpen ==
  /\ (last.op = "sendMessage" /\ OwnedOpen) =>
       /\ last.ret = "true"
       /\ Len(last.wrote) = 1
       /\ last.wrote[1].sock = wsRef
       /\ DecodeOutbound(last.wrote[1].data) = [content |-> last.arg]
  /\ (last.op = "sendMessage" /\ last.ret # "true") => last.wrote = <<>>
  /\ (last.op # "sendMessage") =>
       \A i \in 1..Len(last.wrote) :
         /\ last.op = "onmessage"
         /\ DecodeOutbound(last.wrote[i].data) = [type |-> "pong"]

C8_Witness ==
  /\ last.op = "sendMessage"
  /\ OwnedOpen
  /\ last.arg = "hello"
  /\ last.ret = "true"
  /\ last.wrote = <<[sock |-> wsRef, data |-> "{\"content\":\"hello\"}"]>>

\* C9: the message handler run with a ping frame writes exactly one pong
\* frame to the socket that received the ping when that socket is OPEN,
\* writes nothing when it is not, and never calls onMessage.
C9_PingAnsweredNotForwarded ==
  (last.op = "onmessage" /\ last.arg = "{\"type\":\"ping\"}") =>
    /\ last.gave = <<>>
    /\ last.wrote =
         IF sockets[last.sock].readyState = "OPEN"
         THEN <<[sock |-> last.sock, data |-> "{\"type\":\"pong\"}"]>>
         ELSE <<>>

C9_Witness ==
  /\ last.op = "onmessage"
  /\ last.arg = "{\"type\":\"ping\"}"
  /\ sockets[last.sock].readyState = "OPEN"
  /\ last.wrote = <<[sock |-> last.sock, data |-> "{\"type\":\"pong\"}"]>>
  /\ last.gave = <<>>

\* C10: a connect() call made while roomId or token is empty sets the error
\* to "Missing roomId or token" and changes nothing else of the hook.
C10_EmptyTargetReportsError ==
  [][(last'.op = "connect" /\ (roomId = "" \/ token = "")) =>
       (/\ error' = "Missing roomId or token"
        /\ UNCHANGED <<isConnected, wsRef, reconnectTimeoutRef,
                       reconnectAttemptsRef, isConnectingRef, sockets,
                       timers>>)]_vars

\* ReconnectWait after the abnormal close of session s: s is still the owned
\* handle, it was opened for the roomId and token the hook has now, and the
\* timer its close handler scheduled is pending.
ReconnectWait(s) ==
  /\ mounted
  /\ wsRef = s
  /\ sockets[s].readyState = "CLOSED"
  /\ sockets[s].roomId = roomId
  /\ sockets[s].token = token
  /\ [id |-> s, delay |-> reconnectDelay] \in timers

\* C6: the reconnect timer of a session in ReconnectWait fires and a new
\* WebSocket for the same roomId and token is made. The timer can fire only
\* while it is pending, so the claim needs this: the timer leaves the pending
\* set only in a step that is disconnect(), an unmount or an effect re-run,
\* or in a step that creates a socket for the same roomId and token (the
\* timer firing, or a connect() that came first).
C6_ReconnectTimerLeadsToSameTarget ==
  [][\A s \in SocketIds :
       (ReconnectWait(s) /\ [id |-> s, delay |-> reconnectDelay] \notin timers')
       =>
       \/ last'.op \in {"disconnect", "unmount", "effect"}
       \/ /\ Len(sockets') = Len(sockets) + 1
          /\ sockets'[Len(sockets')].roomId = sockets[s].roomId
          /\ sockets'[Len(sockets')].token = sockets[s].token]_vars

\* C11: when disconnect() returns, whatever the state it was called in, no
\* reconnect timer is pending, no handle is owned (the socket owned before
\* is no longer CONNECTING or OPEN), isConnected and the in-flight flag are
\* false; and a disconnect() that directly follows a disconnect() changes
\* nothing of the hook.
C11_DisconnectLeavesIdle ==
  [][last'.op = "disconnect" =>
       /\ timers' = {}
       /\ reconnectTimeoutRef' = 0
       /\ wsRef' = 0
       /\ wsRef # 0 => sockets'[wsRef].readyState \in {"CLOSING", "CLOSED"}
       /\ isConnected' = FALSE
       /\ isConnectingRef' = FALSE
       /\ last.op = "disconnect" =>
            UNCHANGED <<isConnected, error, wsRef, reconnectTimeoutRef,
                        reconnectAttemptsRef, isConnectingRef, sockets,
                        timers>>]_vars

\* C12 as stated: whenever attempt has reached maxAttempts no reconnect timer
\* is pending, and the close that brought it there has surfaced the
\* exhaustion error.
C12_FailedWhenAttemptReachesMax ==
  reconnectAttemptsRef >= 5 =>
    (timers = {} /\ error = "Max reconnection attempts reached. Please refresh the page.")

\* C12: a close whose handler finds attempt = 5 schedules no timer, creates
\* no socket, leaves attempt at 5 and surfaces the exhaustion error; the
\* abnormal close that brings attempt from 4 to 5 schedules the fifth and
\* last retry and surfaces no error; and Failed, once reached, is not left.
C12_FailedIsTerminal ==
  [][/\ (last'.op = "onclose" /\ reconnectAttemptsRef >= 5) =>
          /\ timers' = timers
          /\ reconnectTimeoutRef' = reconnectTimeoutRef
          /\ reconnectAttemptsRef' = 5
          /\ sockets' = [sockets EXCEPT ![last'.sock].readyState = "CLOSED"]
          /\ error' = "Max reconnection attempts reached. Please refresh the page."
          /\ exhaustedCalls' = exhaustedCalls + 1
     /\ (last'.op = "onclose" /\ last'.code # 1000
           /\ reconnectAttemptsRef = 4) =>
          /\ reconnectAttemptsRef' = 5
          /\ timers' = timers \cup {[id |-> last'.sock, delay |-> 3000]}
          /\ error' = error
          /\ exhaustedCalls' = exhaustedCalls
     /\ Failed =>
          (Failed' /\ sockets' = sockets /\ exhaustedCalls' = exhaustedCalls)]_vars

\* The close of the fifth retry: it found attempt = 5.
C12_Witness ==
  /\ last.op = "onclose"
  /\ last.att = 5
  /\ last.sock = 6
  /\ Failed
  /\ exhaustedCalls = 1

\* C13: the exhaustion error is surfaced only by a close with a code other
\* than 1000 (a failed attempt); an abnormal close with attempts remaining
\* leaves the error as it was; the close, with the manual-close code 1000, of
\* a session that was open when the caller called disconnect() does not
\* surface the exhaustion error; and the configuration error is set only
\* while roomId or token is empty.
C13_ErrorSources ==
  [][/\ (error' = ExhaustedError /\ error # ExhaustedError) =>
          (last'.op = "onclose" /\ last'.code # 1000)
     /\ (last'.op = "onclose" /\ last'.code # 1000
           /\ reconnectAttemptsRef < 5) =>
          error' = error
     /\ (last'.op = "onclose" /\ last'.code = 1000 /\ manual
           /\ sockets[last'.sock].opened) =>
          error' = error
     /\ (error' = MissingError /\ error # MissingError) =>
          (roomId = "" \/ token = "")]_vars

\* C14: at most one socket is CONNECTING or OPEN, and it is the owned one;
\* close() has been called on every socket wsRef no longer refers to; and a
\* step creates at most one socket, and only when the owned handle is absent
\* or its socket is CLOSING or CLOSED.
C14_OneLiveSocket ==
  /\ [](/\ Cardinality(LiveSockets) <= 1
        /\ LiveSockets \subseteq {wsRef}
        /\ \A s \in SocketIds : s # wsRef => sockets[s].closeCalled)
  /\ [][Len(sockets') # Len(sockets) =>
          /\ Len(sockets') = Len(sockets) + 1
          /\ wsRef = 0 \/ sockets[wsRef].readyState \in {"CLOSING", "CLOSED"}]_vars

\* A released socket still in its closing handshake beside the owned, open one.
C14_Witness ==
  /\ Len(sockets) = 2
  /\ wsRef = 2
  /\ sockets[1].readyState = "CLOSING"
  /\ sockets[1].closeCalled
  /\ sockets[2].readyState = "OPEN"

\* C15: an event (open, message, close with its error) delivered by a socket
\* that is not the owned handle changes none of isConnected, attempt and the
\* error flag, schedules no reconnect timer, and calls none of onConnect,
\* onDisconnect and onMessage.
C15_StaleEventsIgnored ==
  [][(last'.op \in {"onopen", "onmessage", "onclose"} /\ last'.sock # wsRef) =>
       /\ UNCHANGED <<isConnected, reconnectAttemptsRef, error, timers,
                      reconnectTimeoutRef, onConnectCalls, onDisconnectCalls>>
       /\ last'.gave = <<>>]_vars

\* C16: when a transport handler whose callback called disconnect() returns,
\* no reconnect timer is pending; and no socket is created afterwards, until
\* the caller calls connect() or the effect runs again.
C16_DisconnectInsideCallback ==
  [][/\ last'.op \in {"onopenDisconnect", "onmessageDisconnect",
                      "oncloseDisconnect"} => timers' = {}
     /\ (last.op \in {"onopenDisconnect", "onmessageDisconnect",
                      "oncloseDisconnect"}
         /\ last'.op \notin {"connect", "effect", "mountTimer"}) =>
          Len(sockets') = Len(sockets)]_vars

\* The frames of type "message" among the frames received, parsed, in the
\* order received and each once.
RECURSIVE MessageFrames(_)
MessageFrames(frames) ==
  IF frames = <<>> THEN <<>>
  ELSE LET f == Head(frames)
           p == JSONParse(f.raw)
       IN (IF p.kind = "object" /\ "type" \in DOMAIN p.obj
              /\ p.obj.type = "message"
           THEN <<[sock |-> f.sock, msg |-> p.obj]>>
           ELSE <<>>) \o MessageFrames(Tail(frames))

\* C17: the sequence of onMessage invocations is the sequence of the frames
\* of type "message" received, in delivery order, each once, and each is
\* forwarded by the handler run that received it.
C17_MessagesForwardedInOrder ==
  /\ forwarded = MessageFrames(received)
  /\ last.op # "onmessage" => last.gave = <<>>
  /\ last.op = "onmessage" =>
       Tagged(last.sock, last.gave) =
         MessageFrames(<<[sock |-> last.sock, raw |-> last.arg]>>)

C17_Witness ==
  /\ Len(received) = 2
  /\ received[1].raw = Msg1Raw
  /\ received[2].raw = Msg2Raw
  /\ received[1].sock = received[2].sock
  /\ Len(forwarded) = 2
  /\ forwarded[1].msg.content = "m1"
  /\ forwarded[2].msg.content = "m2"

\* The frames that are not to reach the caller: text that is not JSON, the
\* JSON value null, a pong, a frame without type, a frame of another type.
DroppedFrames == {GarbageRaw, NullRaw, PongRaw, NoTypeRaw, OtherRaw}

\* C18: the message handler run with a frame that cannot be parsed, a pong,
\* or a frame whose type is missing or unknown calls onMessage not at all,
\* writes nothing, and changes nothing of the hook.
C18_DroppedFramesChangeNothing ==
  [][(last'.op = "onmessage" /\ last'.arg \in DroppedFrames) =>
       /\ last'.gave = <<>>
       /\ last'.wrote = <<>>
       /\ UNCHANGED <<isConnected, error, wsRef, reconnectTimeoutRef,
                      reconnectAttemptsRef, isConnectingRef, sockets, timers,
                      onConnectCalls, onDisconnectCalls>>]_vars

C18_Witness ==
  /\ last.op = "onmessage"
  /\ last.arg = NoTypeRaw
  /\ last.sock = wsRef
  /\ isConnected
  /\ last.gave = <<>>

\* The fields of a ChatMessage (interface Message, without the discriminant).
ChatMessageFields == {"room_id", "sender_id", "username", "content", "ts"}

\* C19: whatever the message handler hands to onMessage contains every
\* ChatMessage field.
C19_ForwardedMessagesAreComplete ==
  \A i \in 1..Len(last.gave) : ChatMessageFields \subseteq DOMAIN last.gave[i]

\* C20: the owned handle, when there is one, refers to a socket that is
\* CONNECTING or OPEN, never to a finished one; and the timer handle, when
\* there is one, refers to a timer that is pending.
C20_HandlesReleased ==
  /\ wsRef # 0 => sockets[wsRef].readyState \in {"CONNECTING", "OPEN"}
  /\ reconnectTimeoutRef # 0 =>
       [id |-> reconnectTimeoutRef, delay |-> reconnectDelay] \in timers

\* C21: once the effect's cleanup has run, nothing of the superseded session
\* is left: while the hook is unmounted no reconnect timer is pending and no
\* socket is CONNECTING or OPEN, and while it is mounted every pending
\* reconnect timer and every socket that is CONNECTING or OPEN belongs to a
\* socket opened for the roomId and token the hook has now.
C21_SupersededSessionTornDown ==
  /\ ~mounted => (timers = {} /\ LiveSockets = {})
  /\ \A t \in timers :
       sockets[t.id].roomId = roomId /\ sockets[t.id].token = token
  /\ \A s \in LiveSockets :
       sockets[s].roomId = roomId /\ sockets[s].token = token

\* C22: while the hook is mounted, isConnected is true exactly when the owned
\* socket has opened and not closed.
C22_IsConnectedMirrorsSession ==
  mounted => (isConnected <=> OwnedOpen)

\* C23: at most one reconnect timer is pending, and a pending reconnect timer
\* is the one recorded in reconnectTimeoutRef.
C23_OneRecordedTimer ==
  /\ Cardinality(timers) <= 1
  /\ \A t \in timers : t.id = reconnectTimeoutRef

\* C24: while the hook is mounted with a non-empty roomId and token, and the
\* caller never called disconnect(), isConnected false comes with a
\* connection attempt in flight, a pending mount or reconnect timer, or the
\* error flag set.
C24_NoSilentDeadEnd ==
  (mounted /\ roomId # "" /\ token # "" /\ ~isConnected) =>
    \/ wsRef # 0 /\ sockets[wsRef].readyState = "CONNECTING"
    \/ mountTimer
    \/ timers # {}
    \/ error # NoError

\* C25: a change of autoScroll (the user scrolls) and a new message leave
\* the hook's effect alone: the effect does not re-run and no socket is
\* closed.
C25_UiChangeKeepsConnection ==
  [][(chat'.autoScroll # chat.autoScroll
      \/ Len(chat'.messages) > Len(chat.messages)) =>
       /\ effects' = effects
       /\ \A s \in SocketIds :
            sockets[s].readyState \in {"CONNECTING", "OPEN"} =>
              sockets'[s].readyState = sockets[s].readyState]_vars

\* C26: once the room is B, nothing of room A reaches the message list: a
\* history response for another room than the current one, and a frame that
\* arrives on a socket of another room, leave the list as it was.
C26_OldRoomDataNotApplied ==
  [][/\ (last'.op = "history" /\ last'.arg # roomId) =>
          chat'.messages = chat.messages
     /\ (last'.op = "onmessage" /\ sockets[last'.sock].roomId # roomId) =>
          chat'.messages = chat.messages]_vars

\* C27: with the room unchanged since the mount, the history response of the
\* room keeps every live message that onMessage appended before it.
C27_LiveMessagesSurviveHistory ==
  [][(last'.op = "history" /\ last'.arg = roomId /\ effects = 0) =>
       \A i \in 1..Len(chat.messages) :
         chat.messages[i].content \in {"m1", "m2"} =>
           \E j \in 1..Len(chat'.messages) :
             chat'.messages[j] = chat.messages[i]]_vars

\* C28: attempt is always within 0..5; a reconnect timer is scheduled only by
\* a close handler that found attempt below 5, and each one scheduled raises
\* attempt by one; attempt goes down only in an open, to 0 (so at most five
\* are scheduled between two opens, or after the last); and the caller's
\* connect() leaves attempt as it is.
C28_RetriesBounded ==
  /\ [](reconnectAttemptsRef \in 0..maxReconnectAttempts)
  /\ [][/\ timers' \ timers # {} =>
             /\ last'.op = "onclose"
             /\ reconnectAttemptsRef < maxReconnectAttempts
             /\ reconnectAttemptsRef' = reconnectAttemptsRef + 1
             /\ Cardinality(timers' \ timers) = 1
        /\ reconnectAttemptsRef' < reconnectAttemptsRef =>
             (last'.op = "onopen" /\ reconnectAttemptsRef' = 0)
        /\ last'.op = "connect" =>
             reconnectAttemptsRef' = reconnectAttemptsRef]_vars

\* A session that opened, then five retries scheduled and failed: the close
\* of the fifth retry found attempt = 5 and scheduled nothing.
C28_Witness ==
  /\ Len(sockets) = maxReconnectAttempts + 1
  /\ sockets[1].opened
  /\ \A s \in 2..Len(sockets) : ~sockets[s].opened
  /\ \A s \in SocketIds : sockets[s].readyState = "CLOSED"
  /\ last.op = "onclose"
  /\ last.att = maxReconnectAttempts
  /\ reconnectAttemptsRef = maxReconnectAttempts
  /\ timers = {}

\* C29: the first socket made for a target, after the room or the token
\* changed, is made with attempt = 0 and with the error flag null.
C29_RetargetStartsFresh ==
  [][(/\ last'.op = "mountTimer"
      /\ effects > 0
      /\ Len(sockets') = Len(sockets) + 1
      /\ \A s \in SocketIds :
           sockets[s].roomId # roomId \/ sockets[s].token # token) =>
       /\ reconnectAttemptsRef' = 0
       /\ error' = NoError]_vars

\* C30: with the effect run, cleaned up and run again within the start delay,
\* no socket exists while the mount timer is pending, exactly one exists once
\* it has fired, and onConnect is called at most once: once when that socket
\* has opened, not before.
C30_StrictModeOneSocket ==
  /\ mountTimer => sockets = <<>>
  /\ ~mountTimer => Len(sockets) = 1
  /\ onConnectCalls <= 1
  /\ onConnectCalls = 1 <=> (sockets # <<>> /\ sockets[1].opened)

C30_Witness ==
  /\ effects = 1
  /\ ~mountTimer
  /\ Len(sockets) = 1
  /\ sockets[1].readyState = "OPEN"
  /\ wsRef = 1
  /\ isConnected
  /\ onConnectCalls = 1

====
